---- MODULE Spec2Model ----
(***************************************************************************)
(* ExcSerial: a Windows command line program that opens a COM port and     *)
(* writes the frame "#n,n,n,n;" at a fixed rate, flipping the sign of n    *)
(* after every successful write, until a console control event sets the    *)
(* stop flag or a write fails.  The model follows src/main.cpp statement   *)
(* by statement; pc is the position of main().                             *)
(*                                                                         *)
(* Time is the reading of std::chrono::steady_clock in milliseconds.  The  *)
(* clock is monotonic and may advance between any two steps of main().     *)
(* int is the 32 bit two's complement int of the Windows ABI.              *)
(***************************************************************************)
EXTENDS Integers, Sequences, FiniteSets, TLC

(***************************************************************************)
(* Bounds of the exploration.                                              *)
(***************************************************************************)
\* WriteFile calls explored per run
MaxWrites == 3
\* clock readings are s * 1000 + m with s in 0..MaxSeconds, m in 0..MaxMillis
MaxSeconds == 2
MaxMillis == 1

(***************************************************************************)
(* Program constants.                                                      *)
(***************************************************************************)
INT_MAX == 2147483647
INT_MIN == (-2147483647) - 1
MaxFrequency == 1000
MsPerSecond == 1000
status_print_time == 2 * MsPerSecond
MinArgc == 4
CBR_115200 == 115200
NOPARITY == 0
ONESTOPBIT == 0
DataBits == 8
FrameFields == 4
FrameFieldSet == 1..FrameFields

CTRL_C_EVENT == 0
CTRL_BREAK_EVENT == 1
CTRL_CLOSE_EVENT == 2
CTRL_LOGOFF_EVENT == 5
CTRL_SHUTDOWN_EVENT == 6
\* the control event types the console subsystem can deliver (3 and 4 are
\* reserved values that CtrlHandler does not recognise)
CtrlTypes == {CTRL_C_EVENT, CTRL_BREAK_EVENT, CTRL_CLOSE_EVENT, 3,
              CTRL_LOGOFF_EVENT, CTRL_SHUTDOWN_EVENT}

(***************************************************************************)
(* Command lines.  An argument is a sequence of characters.                *)
(***************************************************************************)
Prog == <<"e", "x", "c">>
COM3 == <<"C", "O", "M", "3">>
COM7 == <<"C", "O", "M", "7">>
IntMinText == <<"-", "2", "1", "4", "7", "4", "8", "3", "6", "4", "8">>
TooBigText == <<"2", "1", "4", "7", "4", "8", "3", "6", "4", "8">>

Invocations ==
    { <<Prog>>,
      <<Prog, COM7, <<"2", "0">>>>,
      <<Prog, COM7, <<"2", "0">>, <<"1", "0", "0", "0">>>>,
      <<Prog, COM7, <<"-", "2", "0">>, <<"5", "0", "0">>>>,
      <<Prog, COM3, <<"1", "5">>, <<"2", "5", "0">>>>,
      <<Prog, COM7, <<"2", "0">>, <<"1">>, <<"x">>>>,
      <<Prog, COM7, IntMinText, <<"1", "0", "0", "0">>>>,
      <<Prog, COM7, <<" ", "+", "7", "x">>, <<"1", "0", "0", "1">>>>,
      <<Prog, COM7, <<"a", "b", "c">>, <<"1", "0", "0">>>>,
      <<Prog, COM7, TooBigText, <<"1", "0", "0">>>>,
      <<Prog, COM7, <<"2", "0">>, <<"x", "y">>>>,
      <<Prog, COM7, <<"2", "0">>, <<>>>>,
      <<Prog, COM7, <<"2", "0">>, <<"0">>>>,
      <<Prog, COM7, <<"2", "0">>, <<"-", "3">>>> }

(***************************************************************************)
(* operator>>(int&) of std::stringstream: skip leading white space, read   *)
(* an optional sign and the longest run of decimal digits; the stream      *)
(* fails when there is no digit or when the value does not fit in int      *)
(* (the value stored is then 0, INT_MAX or INT_MIN).                       *)
(***************************************************************************)
DigitChars == {"0", "1", "2", "3", "4", "5", "6", "7", "8", "9"}

DigitVal(c) ==
    CASE c = "0" -> 0 [] c = "1" -> 1 [] c = "2" -> 2 [] c = "3" -> 3
      [] c = "4" -> 4 [] c = "5" -> 5 [] c = "6" -> 6 [] c = "7" -> 7
      [] c = "8" -> 8 [] c = "9" -> 9

RECURSIVE SkipWs(_)
SkipWs(s) ==
    IF s # <<>> /\ Head(s) = " " THEN SkipWs(Tail(s)) ELSE s

\* ceil(x / 10) for x <= 0
CeilDiv10(x) == (x \div 10) + (IF x % 10 = 0 THEN 0 ELSE 1)

\* Digits are accumulated as a non-positive number so that the magnitude of
\* INT_MIN is representable.  Result: [digits, overflow, acc].
RECURSIVE Accumulate(_, _, _, _)
Accumulate(s, acc, digits, overflow) ==
    IF s = <<>> \/ Head(s) \notin DigitChars
    THEN [digits |-> digits, overflow |-> overflow, acc |-> acc]
    ELSE LET d == DigitVal(Head(s))
         IN  IF overflow \/ acc < CeilDiv10(INT_MIN + d)
             THEN Accumulate(Tail(s), acc, digits + 1, TRUE)
             ELSE Accumulate(Tail(s), acc * 10 - d, digits + 1, FALSE)

ParseInt(arg) ==
    LET s    == SkipWs(arg)
        neg  == s # <<>> /\ Head(s) = "-"
        sign == s # <<>> /\ Head(s) \in {"-", "+"}
        r    == Accumulate(IF sign THEN Tail(s) ELSE s, 0, 0, FALSE)
    IN  IF r.digits = 0 THEN [ok |-> FALSE, val |-> 0]
        ELSE IF r.overflow THEN
             [ok |-> FALSE, val |-> IF neg THEN INT_MIN ELSE INT_MAX]
        ELSE IF neg THEN [ok |-> TRUE, val |-> r.acc]
        ELSE IF r.acc = INT_MIN THEN [ok |-> FALSE, val |-> INT_MAX]
        ELSE [ok |-> TRUE, val |-> 0 - r.acc]

(***************************************************************************)
(* Integer arithmetic of the program.                                      *)
(***************************************************************************)
\* C++ integer division truncates toward zero (b # 0)
CDiv(a, b) ==
    LET ua == IF a < 0 THEN 0 - a ELSE a
        ub == IF b < 0 THEN 0 - b ELSE b
        q  == ua \div ub
    IN  IF (a < 0) = (b < 0) THEN q ELSE 0 - q

\* variant: n = ~n (bitwise complement) instead of n *= -1
Flip_Complement(v) == (0 - 1) - v

\* n *= -1 on a 32 bit int: the product modulo 2^32, so INT_MIN stays INT_MIN
\* (the negation instruction emitted by MSVC, clang-cl and MinGW)
Flip(v) == IF v = INT_MIN THEN INT_MIN ELSE 0 - v

\* variant: messages_sent += 2
Increment_Twice(c) == c + 2

\* messages_sent++
Increment(c) == c + 1

\* variant: if (f > 1001)
FrequencyTooBig_Off(freq) == freq > MaxFrequency + 1

\* if (f > 1000)
FrequencyTooBig(freq) == freq > MaxFrequency

\* if (argc < 4)
TooFewArguments(count) == count < MinArgc

\* std::chrono::milliseconds sleep_time_ms{1000 / f}, f # 0
Period(freq) == CDiv(MsPerSecond, freq)

\* variant: the format string "#{},{},{},{},;" of the README
Format_TrailingComma(v) == <<"#", v, ",", v, ",", v, ",", v, ",", ";">>

\* std::format("#{},{},{},{};", n, n, n, n): the frame as a sequence of
\* tokens, each field the decimal rendering of the int
Format(v) == <<"#", v, ",", v, ",", v, ",", v, ";">>

\* the value a frame carries in its field k (1..4)
Field(frame, k) == frame[2 * k]

\* variant: the wait ends one millisecond early
MustWait_Early(t, last, sleep) == t - last < sleep - 1

\* while (steady_clock::now() - last_send_time < sleep_time_ms)
MustWait(t, last, sleep) == t - last < sleep

\* variant: if (now - last_print_time >= status_print_time)
StatusDue_AtLeast(t, last) == t - last >= status_print_time

\* if (now - last_print_time > status_print_time)
StatusDue(t, last) == t - last > status_print_time

\* the cases of the switch in CtrlHandler that set the flag
StopEvents == {CTRL_C_EVENT, CTRL_BREAK_EVENT, CTRL_CLOSE_EVENT,
               CTRL_LOGOFF_EVENT, CTRL_SHUTDOWN_EVENT}

(***************************************************************************)
(* The environment: clock readings and the port's line settings.           *)
(***************************************************************************)
Instants == {s * MsPerSecond + m : s \in 0..MaxSeconds, m \in 0..MaxMillis}

ZeroDCB == [BaudRate |-> 0, ByteSize |-> 0, Parity |-> 0, StopBits |-> 0]

\* line settings of the devices when they are opened: COM3 is already set
\* to the values the program wants, COM7 is not
DeviceSettings(name) ==
    IF name = COM3
    THEN [BaudRate |-> CBR_115200, ByteSize |-> DataBits, Parity |-> NOPARITY,
          StopBits |-> ONESTOPBIT]
    ELSE [BaudRate |-> 9600, ByteSize |-> 7, Parity |-> 2, StopBits |-> 2]

NoTimeouts == [ReadIntervalTimeout |-> 0, ReadTotalTimeoutConstant |-> 0,
               ReadTotalTimeoutMultiplier |-> 0,
               WriteTotalTimeoutConstant |-> 0,
               WriteTotalTimeoutMultiplier |-> 0]

ProgramTimeouts == [ReadIntervalTimeout |-> 50, ReadTotalTimeoutConstant |-> 10,
                    ReadTotalTimeoutMultiplier |-> 10,
                    WriteTotalTimeoutConstant |-> 50,
                    WriteTotalTimeoutMultiplier |-> 10]

VARIABLES
    pc,               \* position of main()
    argv,             \* the command line, argv[1] is the program name
    n,                \* int n
    f,                \* int f
    sleep_time_ms,    \* period in ms
    hCom,             \* "none", "invalid", "open", "closed"
    gStopRequested,   \* the stop flag
    handler,          \* [registered, ret]: CtrlHandler registration, last return
    dcb,              \* the local DCB structure
    port,             \* [line, timeouts]: settings of the device
    messages_sent,    \* unsigned int messages_sent
    last_send_time,
    last_print_time,
    now,              \* const auto now of the current cycle
    msg,              \* std::string msg of the current cycle
    clock,            \* steady_clock
    channel,          \* frames the device received, in order
    console,          \* lines printed to stdout / stderr
    exit,             \* [status, path]: how main() ended
    obs               \* observation record (history of calls, see Init)

vars == <<pc, argv, n, f, sleep_time_ms, hCom, gStopRequested, handler, dcb,
          port, messages_sent, last_send_time, last_print_time, now, msg,
          clock, channel, console, exit, obs>>

argc == Len(argv)

\* argv[k] of the C program, k >= 0
Arg(k) == argv[k + 1]

Running == pc \notin {"exited", "crashed"}

\* History of the run, written by the steps below.  No step of the program
\* reads it; writes bounds the exploration and entered starts the clock:
\*   opens, closes   CreateFile / CloseHandle calls made
\*   writes          WriteFile calls made
\*   prev_send       last_send_time before the stamp of the cycle (line 163),
\*                   kept until the write of the cycle has succeeded
\*   stop_pc         part of main() (StopPhase of pc) in which the flag went
\*                   from false to true
\*   stop_writes     WriteFile calls made when the flag went true
\*   getstate_failed GetCommState returned FALSE
\*   entered         the send loop was reached
InitObs == [opens |-> 0, closes |-> 0, writes |-> 0, prev_send |-> 0,
            stop_pc |-> "none", stop_writes |-> 0, getstate_failed |-> FALSE,
            entered |-> FALSE]

Init ==
    /\ pc = "start"
    /\ argv \in Invocations
    /\ n = 0
    /\ f = 0
    /\ sleep_time_ms = 0
    /\ hCom = "none"
    /\ gStopRequested = FALSE
    /\ handler = [registered |-> FALSE, ret |-> "none"]
    /\ dcb = ZeroDCB
    /\ port = [line |-> DeviceSettings(IF Len(argv) > 1 THEN argv[2] ELSE <<>>),
               timeouts |-> NoTimeouts]
    /\ messages_sent = 0
    /\ last_send_time = 0
    /\ last_print_time = 0
    /\ now = 0
    /\ msg = <<>>
    /\ clock = 0
    /\ channel = <<>>
    /\ console = <<>>
    /\ exit = [status |-> "none", path |-> "none"]
    /\ obs = InitObs

(***************************************************************************)
(* Helpers of the steps.                                                   *)
(***************************************************************************)
\* return EXIT_SUCCESS / EXIT_FAILURE from main()
Return(status, path) ==
    /\ pc' = "exited"
    /\ exit' = [status |-> status, path |-> path]

\* std::cout / std::cerr << line
Say(line) == console' = Append(console, line)

\* CloseHandle(hCom)
CloseHandle ==
    /\ hCom' = "closed"
    /\ obs' = [obs EXCEPT !.closes = @ + 1]

(***************************************************************************)
(* Start-up: argument validation (lines 54-91).                            *)
(***************************************************************************)
CheckArgc ==
    /\ pc = "start"
    /\ IF TooFewArguments(argc)
       THEN /\ Say("usage")
            /\ Return("EXIT_SUCCESS", "usage")
       ELSE /\ Say("starting")
            /\ pc' = "parse_n"
            /\ UNCHANGED exit
    /\ UNCHANGED <<argv, n, f, sleep_time_ms, hCom, gStopRequested, handler,
                   dcb, port, messages_sent, last_send_time, last_print_time,
                   now, msg, clock, channel, obs>>

ParseN ==
    /\ pc = "parse_n"
    /\ LET r == ParseInt(Arg(2))
       IN  /\ n' = r.val
           /\ IF ~r.ok
              THEN /\ Say("cant_convert")
                   /\ Return("EXIT_FAILURE", "bad_n")
              ELSE /\ pc' = "parse_f"
                   /\ UNCHANGED <<console, exit>>
    /\ UNCHANGED <<argv, f, sleep_time_ms, hCom, gStopRequested, handler,
                   dcb, port, messages_sent, last_send_time, last_print_time,
                   now, msg, clock, channel, obs>>

ParseF ==
    /\ pc = "parse_f"
    /\ LET r == ParseInt(Arg(3))
       IN  /\ f' = r.val
           /\ IF ~r.ok
              THEN /\ Say("cant_convert")
                   /\ Return("EXIT_FAILURE", "bad_f")
              ELSE IF FrequencyTooBig(r.val)
              THEN /\ Say("frequency_too_big")
                   /\ Return("EXIT_FAILURE", "f_range")
              ELSE /\ pc' = "period"
                   /\ UNCHANGED <<console, exit>>
    /\ UNCHANGED <<argv, n, sleep_time_ms, hCom, gStopRequested, handler,
                   dcb, port, messages_sent, last_send_time, last_print_time,
                   now, msg, clock, channel, obs>>

\* line 91 with f # 0
ComputePeriod ==
    /\ pc = "period"
    /\ f # 0
    /\ sleep_time_ms' = Period(f)
    /\ pc' = "open"
    /\ UNCHANGED <<argv, n, f, hCom, gStopRequested, handler, dcb, port,
                   messages_sent, last_send_time, last_print_time, now, msg,
                   clock, channel, console, exit, obs>>

\* line 91 with f = 0: integer division by zero is undefined.  On x86 and
\* x64 the divide instruction raises an exception that ends the process; on
\* ARM64 the divide instruction yields 0 and the program goes on.
DivideByZero ==
    /\ pc = "period"
    /\ f = 0
    /\ \/ /\ pc' = "crashed"
          /\ exit' = [status |-> "exception", path |-> "div0"]
          /\ UNCHANGED sleep_time_ms
       \/ /\ sleep_time_ms' = 0
          /\ pc' = "open"
          /\ UNCHANGED exit
    /\ UNCHANGED <<argv, n, f, hCom, gStopRequested, handler, dcb, port,
                   messages_sent, last_send_time, last_print_time, now, msg,
                   clock, channel, console, obs>>

(***************************************************************************)
(* Start-up: the channel (lines 94-145).                                   *)
(***************************************************************************)
\* CreateFile; ok is the outcome the operating system reports
OpenPort(ok) ==
    /\ pc = "open"
    /\ IF ok
       THEN /\ hCom' = "open"
            /\ pc' = "handler"
            /\ UNCHANGED <<console, exit>>
       ELSE /\ hCom' = "invalid"
            /\ Say("createfile_failed")
            /\ Return("EXIT_FAILURE", "open_failed")
    /\ obs' = [obs EXCEPT !.opens = @ + 1]
    /\ UNCHANGED <<argv, n, f, sleep_time_ms, gStopRequested, handler, dcb,
                   port, messages_sent, last_send_time, last_print_time, now,
                   msg, clock, channel>>

\* SetConsoleCtrlHandler(CtrlHandler, TRUE)
RegisterHandler(ok) ==
    /\ pc = "handler"
    /\ IF ok
       THEN /\ handler' = [handler EXCEPT !.registered = TRUE]
            /\ pc' = "getstate"
            /\ UNCHANGED <<console, exit>>
       ELSE /\ Say("set_handler_failed")
            /\ Return("EXIT_FAILURE", "handler_failed")
            /\ UNCHANGED handler
    /\ UNCHANGED <<argv, n, f, sleep_time_ms, hCom, gStopRequested, dcb, port,
                   messages_sent, last_send_time, last_print_time, now, msg,
                   clock, channel, obs>>

\* lines 115-131: zero the DCB, GetCommState, set the four fields.  The DCB
\* is a local structure of main(); no call hands it back to the device.
ConfigureDCB(ok) ==
    /\ pc = "getstate"
    /\ dcb' = [(IF ok THEN port.line ELSE ZeroDCB) EXCEPT
                  !.BaudRate = CBR_115200, !.ByteSize = DataBits,
                  !.Parity = NOPARITY, !.StopBits = ONESTOPBIT]
    /\ console' = (IF ok THEN console ELSE Append(console, "getcommstate_failed"))
                     \o <<"configured">>
    /\ pc' = "timeouts"
    /\ obs' = [obs EXCEPT !.getstate_failed = ~ok]
    /\ UNCHANGED <<argv, n, f, sleep_time_ms, hCom, gStopRequested, handler,
                   port, messages_sent, last_send_time, last_print_time, now,
                   msg, clock, channel, exit>>

\* SetCommTimeouts(hCom, &timeouts)
SetTimeouts(ok) ==
    /\ pc = "timeouts"
    /\ IF ok
       THEN /\ port' = [port EXCEPT !.timeouts = ProgramTimeouts]
            /\ pc' = "setup"
            /\ UNCHANGED <<hCom, console, exit, obs>>
       ELSE /\ CloseHandle
            /\ Say("set_timeouts_failed")
            /\ Return("EXIT_FAILURE", "timeouts_failed")
            /\ UNCHANGED port
    /\ UNCHANGED <<argv, n, f, sleep_time_ms, gStopRequested, handler, dcb,
                   messages_sent, last_send_time, last_print_time, now, msg,
                   clock, channel>>

\* lines 148-154
SetupLoop ==
    /\ pc = "setup"
    /\ messages_sent' = 0
    /\ last_send_time' = clock
    /\ last_print_time' = clock
    /\ Say("sending")
    /\ obs' = [obs EXCEPT !.entered = TRUE]
    /\ pc' = "loop"
    /\ UNCHANGED <<argv, n, f, sleep_time_ms, hCom, gStopRequested, handler,
                   dcb, port, now, msg, clock, channel, exit>>

(***************************************************************************)
(* The send loop (lines 157-185) and the exit (lines 187-191).             *)
(***************************************************************************)
\* variant: the loop also ends, as if stopped, after two messages
EnterCycle_Limited ==
    /\ pc = "loop"
    /\ ~gStopRequested
    /\ IF messages_sent >= 2
       THEN /\ Say("got_ctrl_c")
            /\ CloseHandle
            /\ Return("EXIT_SUCCESS", "stopped")
       ELSE /\ pc' = "wait"
            /\ UNCHANGED <<hCom, console, exit, obs>>
    /\ UNCHANGED <<argv, n, f, sleep_time_ms, gStopRequested, handler,
                   dcb, port, messages_sent, last_send_time, last_print_time,
                   now, msg, clock, channel>>

\* while (!gStopRequested): the flag is false, a cycle starts
EnterCycle ==
    /\ pc = "loop"
    /\ ~gStopRequested
    /\ pc' = "wait"
    /\ UNCHANGED <<argv, n, f, sleep_time_ms, hCom, gStopRequested, handler,
                   dcb, port, messages_sent, last_send_time, last_print_time,
                   now, msg, clock, channel, console, exit, obs>>

\* variant: the exit after the loop without CloseHandle
ExitLoop_NoClose ==
    /\ pc = "loop"
    /\ gStopRequested
    /\ Say("got_ctrl_c")
    /\ Return("EXIT_SUCCESS", "stopped")
    /\ UNCHANGED <<argv, n, f, sleep_time_ms, hCom, gStopRequested, handler,
                   dcb, port, messages_sent, last_send_time, last_print_time,
                   now, msg, clock, channel, obs>>

\* while (!gStopRequested): the flag is true; lines 187-191
ExitLoop ==
    /\ pc = "loop"
    /\ gStopRequested
    /\ Say("got_ctrl_c")
    /\ CloseHandle
    /\ Return("EXIT_SUCCESS", "stopped")
    /\ UNCHANGED <<argv, n, f, sleep_time_ms, gStopRequested, handler, dcb,
                   port, messages_sent, last_send_time, last_print_time, now,
                   msg, clock, channel>>

\* line 159: one evaluation of the busy-wait condition
BusyWait ==
    /\ pc = "wait"
    /\ pc' = IF MustWait(clock, last_send_time, sleep_time_ms)
             THEN "yield" ELSE "stamp"
    /\ UNCHANGED <<argv, n, f, sleep_time_ms, hCom, gStopRequested, handler,
                   dcb, port, messages_sent, last_send_time, last_print_time,
                   now, msg, clock, channel, console, exit, obs>>

\* line 160: Sleep(0)
Yield ==
    /\ pc = "yield"
    /\ pc' = "wait"
    /\ UNCHANGED <<argv, n, f, sleep_time_ms, hCom, gStopRequested, handler,
                   dcb, port, messages_sent, last_send_time, last_print_time,
                   now, msg, clock, channel, console, exit, obs>>

\* lines 162-163
Stamp ==
    /\ pc = "stamp"
    /\ now' = clock
    /\ last_send_time' = clock
    /\ obs' = [obs EXCEPT !.prev_send = last_send_time]
    /\ pc' = "send"
    /\ UNCHANGED <<argv, n, f, sleep_time_ms, hCom, gStopRequested, handler,
                   dcb, port, messages_sent, last_print_time, msg, clock,
                   channel, console, exit>>

\* lines 166-168: format the frame and call WriteFile
IssueWrite ==
    /\ pc = "send"
    /\ obs.writes < MaxWrites
    /\ msg' = Format(n)
    /\ obs' = [obs EXCEPT !.writes = @ + 1]
    /\ pc' = "writing"
    /\ UNCHANGED <<argv, n, f, sleep_time_ms, hCom, gStopRequested, handler,
                   dcb, port, messages_sent, last_send_time, last_print_time,
                   now, clock, channel, console, exit>>

\* variant: the flip and the increment are skipped once the flag is set
WriteSucceeds_StopFirst ==
    /\ pc = "writing"
    /\ channel' = Append(channel, msg)
    /\ n' = IF gStopRequested THEN n ELSE Flip(n)
    /\ messages_sent' = IF gStopRequested THEN messages_sent
                        ELSE Increment(messages_sent)
    /\ IF StatusDue(now, last_print_time)
       THEN /\ console' = Append(console, <<"sent", messages_sent'>>)
            /\ last_print_time' = now
       ELSE UNCHANGED <<console, last_print_time>>
    /\ pc' = "loop"
    /\ obs' = [obs EXCEPT !.prev_send = 0]
    /\ UNCHANGED <<argv, f, sleep_time_ms, hCom, gStopRequested, handler, dcb,
                   port, last_send_time, now, msg, clock, exit>>

\* WriteFile returned TRUE: lines 175-176, then the status print 180-184
WriteSucceeds ==
    /\ pc = "writing"
    /\ channel' = Append(channel, msg)
    /\ n' = Flip(n)
    /\ messages_sent' = Increment(messages_sent)
    /\ IF StatusDue(now, last_print_time)
       THEN /\ console' = Append(console, <<"sent", messages_sent'>>)
            /\ last_print_time' = now
       ELSE UNCHANGED <<console, last_print_time>>
    /\ pc' = "loop"
    /\ obs' = [obs EXCEPT !.prev_send = 0]
    /\ UNCHANGED <<argv, f, sleep_time_ms, hCom, gStopRequested, handler, dcb,
                   port, last_send_time, now, msg, clock, exit>>

\* variant: a failed write is reported and the loop goes on
WriteFails_Retry ==
    /\ pc = "writing"
    /\ Say("write_failed")
    /\ exit' = [exit EXCEPT !.path = "write_failed"]
    /\ pc' = "loop"
    /\ UNCHANGED <<argv, n, f, sleep_time_ms, hCom, gStopRequested, handler,
                   dcb, port, messages_sent, last_send_time, last_print_time,
                   now, msg, clock, channel, obs>>

\* WriteFile returned FALSE: lines 170-173
WriteFails ==
    /\ pc = "writing"
    /\ Say("write_failed")
    /\ CloseHandle
    /\ Return("EXIT_FAILURE", "write_failed")
    /\ UNCHANGED <<argv, n, f, sleep_time_ms, gStopRequested, handler, dcb,
                   port, messages_sent, last_send_time, last_print_time, now,
                   msg, clock, channel>>

(***************************************************************************)
(* The console control handler (lines 20-32), run by the system on its own *)
(* thread at any moment after it was registered.                           *)
(***************************************************************************)
\* the part of main() a position belongs to
StopPhase(p) ==
    CASE p \in {"getstate", "timeouts", "setup"} -> "setup"
      [] p \in {"wait", "yield"} -> "wait"
      [] p \in {"stamp", "send"} -> "send"
      [] OTHER -> p

\* variant: gStopRequested = !gStopRequested in the recognised cases
CtrlHandler_Toggle(ctrlType) ==
    /\ Running
    /\ handler.registered
    /\ IF ctrlType \in StopEvents
       THEN /\ gStopRequested' = ~gStopRequested
            /\ handler' = [handler EXCEPT !.ret = "TRUE"]
            /\ obs' = IF gStopRequested THEN obs
                      ELSE [obs EXCEPT !.stop_pc = StopPhase(pc),
                                       !.stop_writes = obs.writes]
       ELSE /\ handler' = [handler EXCEPT !.ret = "FALSE"]
            /\ UNCHANGED <<gStopRequested, obs>>
    /\ UNCHANGED <<pc, argv, n, f, sleep_time_ms, hCom, dcb, port,
                   messages_sent, last_send_time, last_print_time, now, msg,
                   clock, channel, console, exit>>

CtrlHandler(ctrlType) ==
    /\ Running
    /\ handler.registered
    /\ IF ctrlType \in StopEvents
       THEN /\ gStopRequested' = TRUE
            /\ handler' = [handler EXCEPT !.ret = "TRUE"]
            /\ obs' = IF gStopRequested THEN obs
                      ELSE [obs EXCEPT !.stop_pc = StopPhase(pc),
                                       !.stop_writes = obs.writes]
       ELSE /\ handler' = [handler EXCEPT !.ret = "FALSE"]
            /\ UNCHANGED <<gStopRequested, obs>>
    /\ UNCHANGED <<pc, argv, n, f, sleep_time_ms, hCom, dcb, port,
                   messages_sent, last_send_time, last_print_time, now, msg,
                   clock, channel, console, exit>>

\* steady_clock advances to a later reading.  The program reads the clock
\* for the first time at line 150; clock 0 is that instant.
Tick(t) ==
    /\ Running
    /\ obs.entered
    /\ t > clock
    /\ clock' = t
    /\ UNCHANGED <<pc, argv, n, f, sleep_time_ms, hCom, gStopRequested,
                   handler, dcb, port, messages_sent, last_send_time,
                   last_print_time, now, msg, channel, console, exit, obs>>

Next ==
    \/ CheckArgc
    \/ ParseN
    \/ ParseF
    \/ ComputePeriod
    \/ DivideByZero
    \/ \E ok \in BOOLEAN : OpenPort(ok)
    \/ \E ok \in BOOLEAN : RegisterHandler(ok)
    \/ \E ok \in BOOLEAN : ConfigureDCB(ok)
    \/ \E ok \in BOOLEAN : SetTimeouts(ok)
    \/ SetupLoop
    \/ EnterCycle
    \/ ExitLoop
    \/ BusyWait
    \/ Yield
    \/ Stamp
    \/ IssueWrite
    \/ WriteSucceeds
    \/ WriteFails
    \/ \E ctrlType \in CtrlTypes : CtrlHandler(ctrlType)
    \/ \E t \in Instants : Tick(t)

Spec == Init /\ [][Next]_vars

(***************************************************************************)
(* Fairness: main() keeps running while it can take a step, and the clock  *)
(* keeps advancing.  The control handler is never obliged to run.          *)
(***************************************************************************)
MainStep ==
    \/ CheckArgc
    \/ ParseN
    \/ ParseF
    \/ ComputePeriod
    \/ DivideByZero
    \/ \E ok \in BOOLEAN : OpenPort(ok)
    \/ \E ok \in BOOLEAN : RegisterHandler(ok)
    \/ \E ok \in BOOLEAN : ConfigureDCB(ok)
    \/ \E ok \in BOOLEAN : SetTimeouts(ok)
    \/ SetupLoop
    \/ EnterCycle
    \/ ExitLoop
    \/ BusyWait
    \/ Yield
    \/ Stamp
    \/ IssueWrite
    \/ WriteSucceeds
    \/ WriteFails

ClockStep == \E t \in Instants : Tick(t)

FairSpec == Spec /\ WF_vars(MainStep) /\ WF_vars(ClockStep)

(***************************************************************************)
(* Properties.                                                             *)
(***************************************************************************)
\* the value the caller supplied, as main() parsed it
Magnitude == ParseInt(Arg(2)).val

\* the value frame k of the channel carries
Value(k) == Field(channel[k], 1)

\* b is the integer -a
IsNegationOf(b, a) == a # INT_MIN /\ b = 0 - a

\* |v| modulo 2^32
AbsW(v) == IF v < 0 /\ v # INT_MIN THEN 0 - v ELSE v

Stopped == pc = "exited" /\ exit.path = "stopped"

\* C1: frame 1 carries the caller's value and every later frame carries the
\* negation of the value of the frame before it.
C1_SignAlternates ==
    /\ Len(channel) >= 1 => Value(1) = Magnitude
    /\ \A k \in 1..(Len(channel) - 1) : IsNegationOf(Value(k + 1), Value(k))

\* C2: once the stop flag has become true during the busy-wait, no write is
\* issued any more and the process ends with the success status.
C2_StopInWaitSendsNothing ==
    obs.stop_pc \in {"wait", "yield"} =>
        /\ pc # "writing"
        /\ pc = "exited" => exit.status = "EXIT_SUCCESS"

\* C3: when the process has ended, the channel was closed exactly once if it
\* was opened and never if it was not.
C3_ClosedExactlyOnce ==
    ~Running =>
        /\ hCom \in {"open", "closed"} => hCom = "closed" /\ obs.closes = 1
        /\ hCom \in {"none", "invalid"} => obs.closes = 0

\* C4: after a failed write the process has ended with the failure status,
\* the failed write was the last one issued, the counter is the number of
\* writes before it and the channel was closed exactly once.
C4_WriteFailureIsFatal ==
    exit.path = "write_failed" =>
        /\ pc = "exited"
        /\ exit.status = "EXIT_FAILURE"
        /\ messages_sent = obs.writes - 1
        /\ Len(channel) = obs.writes - 1
        /\ hCom = "closed"
        /\ obs.closes = 1

C4_Witness ==
    /\ exit.path = "write_failed"
    /\ obs.writes = 3
    /\ messages_sent = 2

\* C5: the sent counter equals the number of successful writes so far, in
\* every state (waiting, writing, after a failed write, after a stop).
C5_CounterCountsWrites == messages_sent = Len(channel)

C5_Witness ==
    /\ exit.path = "write_failed"
    /\ gStopRequested
    /\ messages_sent = 2
    /\ Len(console) > 0 /\ console[Len(console)] = "write_failed"

\* C6: every field of every written frame has the absolute value (modulo
\* 2^32) of the caller's value.
C6_MagnitudeConstant ==
    \A k \in 1..Len(channel) : \A j \in FrameFieldSet :
        AbsW(Field(channel[k], j)) = AbsW(Magnitude)

C6_Witness ==
    /\ Len(channel) >= 2
    /\ Magnitude = INT_MIN

\* C7: when the stop flag became true while a write was in progress and the
\* loop then ended by the flag, the counter counts that write and the value
\* was flipped after it.
C7_StopDuringWriteCounts ==
    (Stopped /\ obs.stop_pc = "writing") =>
        /\ obs.writes >= 1
        /\ messages_sent = obs.writes
        /\ Len(channel) = obs.writes
        /\ n = Flip(Value(Len(channel)))

C7_Witness ==
    /\ Stopped
    /\ obs.stop_pc = "writing"
    /\ messages_sent = 2

C9_LoopExits ==
    (obs.entered /\ ~Running) =>
        \/ /\ exit.path = "stopped"
           /\ gStopRequested
           /\ exit.status = "EXIT_SUCCESS"
           /\ console[Len(console)] = "got_ctrl_c"
        \/ /\ exit.path = "write_failed"
           /\ exit.status = "EXIT_FAILURE"
           /\ Len(channel) < obs.writes

OutOfTime ==
    /\ \A t \in Instants : t <= clock
    /\ MustWait(clock, last_send_time, sleep_time_ms)

C9_OnlyStopOrFailure ==
    /\ []C9_LoopExits
    /\ <>(~Running \/ gStopRequested \/ Len(channel) = MaxWrites \/ OutOfTime)

C9_Witness ==
    /\ Len(channel) = MaxWrites
    /\ ~gStopRequested
    /\ pc = "send"

\* C10: an invocation with fewer than 3 positional arguments, or whose
\* magnitude or frequency fails validation, never attempts to open the
\* channel.
InvalidInvocation ==
    \/ argc < MinArgc
    \/ ~ParseInt(Arg(2)).ok
    \/ ~ParseInt(Arg(3)).ok
    \/ ParseInt(Arg(3)).val > MaxFrequency

C10_ValidationBeforeOpen ==
    InvalidInvocation => obs.opens = 0 /\ hCom = "none"

C10_Witness ==
    /\ pc = "exited"
    /\ exit.path = "f_range"
    /\ ParseInt(Arg(3)).val = MaxFrequency + 1
    /\ obs.opens = 0

\* C11: a process that has ended has status 0 or 1: 0 exactly after the
\* usage text or a stop, 1 exactly after a validation, open, registration,
\* timeout or write failure; it never ends any other way.
SuccessPaths == {"usage", "stopped"}

FailurePaths == {"bad_n", "bad_f", "f_range", "open_failed", "handler_failed",
                 "timeouts_failed", "write_failed"}

C11_StatusZeroOrOne ==
    ~Running =>
        /\ pc = "exited"
        /\ exit.status \in {"EXIT_SUCCESS", "EXIT_FAILURE"}
        /\ exit.status = "EXIT_SUCCESS" <=> exit.path \in SuccessPaths
        /\ exit.status = "EXIT_FAILURE" <=> exit.path \in FailurePaths

\* C12: the send loop is entered only with a frequency in 1..1000 and a
\* period of at least 1 ms.
C12_LoopNeedsValidFrequency ==
    obs.entered => f \in 1..MaxFrequency /\ sleep_time_ms >= 1

\* C13: the stop flag starts false; a step changes it only from false to
\* true, and only a step of the registered control handler that returns TRUE
\* while main() stays where it is; a handler step that returns FALSE (an
\* unrecognised event) leaves the flag as it was.
C13_FlagStep ==
    /\ gStopRequested => gStopRequested'
    /\ gStopRequested' # gStopRequested =>
          /\ handler.registered
          /\ handler'.ret = "TRUE"
          /\ pc' = pc
    /\ (handler' # handler /\ handler'.ret = "FALSE") =>
          gStopRequested' = gStopRequested

C13_StopFlagMonotone == ~gStopRequested /\ [][C13_FlagStep]_vars

C13_Witness ==
    /\ gStopRequested
    /\ handler.ret = "FALSE"
    /\ pc = "writing"

\* C14: whenever a write is issued or in progress, the line settings of the
\* device are 115200 baud, 8 data bits, no parity, one stop bit.
RequiredLine == [BaudRate |-> CBR_115200, ByteSize |-> DataBits,
                 Parity |-> NOPARITY, StopBits |-> ONESTOPBIT]

C14_LineSettingsApplied ==
    pc = "writing" => port.line = RequiredLine

\* C15: after a failure to read the line settings, to register the handler
\* or to set the timeouts, no frame is ever written and the process, once
\* ended, has the failure status.
ConfigurationFailed ==
    \/ obs.getstate_failed
    \/ exit.path \in {"handler_failed", "timeouts_failed"}

C15_ConfigurationFailureIsFatal ==
    ConfigurationFailed =>
        /\ obs.writes = 0
        /\ channel = <<>>
        /\ ~Running => exit.status = "EXIT_FAILURE"

\* C16: everything the channel received is a sequence of whole frames
\* '#v,v,v,v;', one per successful write, whose four fields are the value n
\* had when the cycle of that write started; a write in progress carries the
\* frame of the current n.
IsFrameOf(frame, v) ==
    /\ Len(frame) = 9
    /\ frame[1] = "#"
    /\ frame[3] = "," /\ frame[5] = "," /\ frame[7] = ","
    /\ frame[9] = ";"
    /\ frame[2] = v /\ frame[4] = v /\ frame[6] = v /\ frame[8] = v

ReadmeInvocation == <<Prog, COM3, <<"1", "5">>, <<"2", "5", "0">>>>

IsReadmeFrameOf(frame, v) ==
    /\ Len(frame) = 10
    /\ frame[1] = "#"
    /\ frame[3] = "," /\ frame[5] = "," /\ frame[7] = "," /\ frame[9] = ","
    /\ frame[10] = ";"
    /\ frame[2] = v /\ frame[4] = v /\ frame[6] = v /\ frame[8] = v

C17_ReadmeFrame ==
    argv = ReadmeInvocation =>
        \A k \in 1..Len(channel) :
            IsReadmeFrameOf(channel[k], IF k % 2 = 1 THEN 15 ELSE 0 - 15)

\* C18: a step that completes a successful write prints a status line with
\* the new counter and sets the print timestamp to the send timestamp of
\* the cycle when the time from the last print (or the loop setup) to that
\* send timestamp is long enough, and otherwise prints nothing and leaves
\* the print timestamp alone.
CycleCompletes == pc = "writing" /\ pc' = "loop"

StatusPrinted ==
    /\ Len(console') = Len(console) + 1
    /\ console'[Len(console')] = <<"sent", messages_sent'>>
    /\ last_print_time' = now

NothingPrinted ==
    /\ console' = console
    /\ last_print_time' = last_print_time

\* as claimed: long enough is 2000 ms or more
C18_PrintAtTwoSeconds ==
    [][CycleCompletes =>
         IF now - last_print_time >= 2 * MsPerSecond
         THEN StatusPrinted ELSE NothingPrinted]_vars

\* as the code does: long enough is more than 2000 ms
C18_PrintAfterTwoSeconds ==
    [][CycleCompletes =>
         IF now - last_print_time > 2 * MsPerSecond
         THEN StatusPrinted ELSE NothingPrinted]_vars

C18_Witness ==
    /\ pc = "loop"
    /\ messages_sent >= 1
    /\ last_print_time = now
    /\ now = 2 * MsPerSecond + 1

\* C19: once the stop flag is true at most one further write is issued,
\* and (main() running on, the clock advancing, the write returning) the
\* process ends with the channel closed, with the success status unless a
\* failure listed below ended it.  The exploration may stop a run before its
\* end: in a wait at the last clock reading, or at the write after the last
\* one explored; a run that is never stopped always ends in one of these
\* ways or by a failure.
AtMostOneMoreWrite ==
    gStopRequested => obs.writes <= obs.stop_writes + 1

StoppedRunEnds(failures) ==
    (gStopRequested /\ ~Running) =>
        /\ pc = "exited"
        /\ hCom = "closed"
        /\ obs.closes = 1
        /\ \/ exit.status = "EXIT_SUCCESS" /\ exit.path = "stopped"
           \/ exit.status = "EXIT_FAILURE" /\ exit.path \in failures

ExplorationEnds ==
    \/ pc \in {"wait", "yield"} /\ OutOfTime
    \/ pc = "send" /\ obs.writes = MaxWrites

StopLeadsToExit == <>(~Running \/ ExplorationEnds)

\* as claimed: only a failure of that last write gives the failure status
C19_StopEndsRun ==
    /\ [](AtMostOneMoreWrite /\ StoppedRunEnds({"write_failed"}))
    /\ StopLeadsToExit

\* a stop that arrives before the loop can also be followed by a failure to
\* set the timeouts
C19_StopEndsRunOrSetupFails ==
    /\ [](AtMostOneMoreWrite
          /\ StoppedRunEnds({"write_failed", "timeouts_failed"}))
    /\ StopLeadsToExit

C19_Witness ==
    /\ Stopped
    /\ obs.stop_pc = "wait"
    /\ obs.writes = obs.stop_writes + 1
    /\ hCom = "closed"

\* C20: at the loop head the value is the caller's value when the counter
\* is even and the negation of the caller's value when the counter is odd.
C20_ValueTiedToCounter ==
    pc = "loop" =>
        IF messages_sent % 2 = 0
        THEN n = Magnitude
        ELSE IsNegationOf(n, Magnitude)

====
